---- MODULE Spec2Model ----
(***************************************************************************)
(* Local file system of the rolodex (package index): discovery of the      *)
(* YAML/JSON files below a base directory (NewLocalFSWithConfig), lookup   *)
(* of a file by path (LocalFS.Open), reading through a handle              *)
(* (localRolodexFile.Read) and the lazily cached parse and index of a      *)
(* file (LocalFile.GetContentAsYAMLNode, LocalFile.Index).                 *)
(*                                                                         *)
(* Strings are sequences of one-character strings, so that prefixes,       *)
(* extensions and path cleaning are computed as the Go library does.       *)
(***************************************************************************)
EXTENDS Integers, Sequences, FiniteSets, TLC

\* a nil pointer, a nil error
NIL == [nil |-> TRUE]

(***************************************************************************)
(* Bounds of the model.                                                    *)
(***************************************************************************)
\* how many files of the walked tree may fail to open, stat or read
MaxBad == 1
\* how many calls of GetContentAsYAMLNode and Index are made in all
MaxCalls == 4
\* how many handles are opened in all
MaxOpens == 2
\* the largest buffer given to Read
MaxBuf == 2
\* how many calls of Open, GetContentAsYAMLNode and Index are made in all
\* when every operation is exercised together
MaxAll == 3

(***************************************************************************)
(* strings, path/filepath                                                  *)
(***************************************************************************)
Dot == <<".">>
DotDot == <<".", ".">>

\* strings.HasPrefix
HasPrefix(s, pre) ==
    /\ Len(s) >= Len(pre)
    /\ SubSeq(s, 1, Len(pre)) = pre

\* strings.HasSuffix
HasSuffix(s, suf) ==
    /\ Len(s) >= Len(suf)
    /\ SubSeq(s, Len(s) - Len(suf) + 1, Len(s)) = suf

\* filepath.IsAbs (unix): the path begins with the separator
IsAbs(p) == HasPrefix(p, <<"/">>)

\* the slash-separated elements of a path, empty elements included
RECURSIVE SplitFrom(_, _, _)
SplitFrom(p, i, cur) ==
    IF i > Len(p) THEN <<cur>>
    ELSE IF p[i] = "/" THEN <<cur>> \o SplitFrom(p, i + 1, <<>>)
    ELSE SplitFrom(p, i + 1, Append(cur, p[i]))

Split(p) == SplitFrom(p, 1, <<>>)

\* the elements joined by single separators
RECURSIVE JoinSlash(_)
JoinSlash(segs) ==
    IF segs = <<>> THEN <<>>
    ELSE IF Len(segs) = 1 THEN segs[1]
    ELSE segs[1] \o <<"/">> \o JoinSlash(Tail(segs))

\* the lexical processing of filepath.Clean: drop empty and "." elements,
\* cancel "x/..", drop ".." at the root of a rooted path
RECURSIVE CleanStack(_, _, _)
CleanStack(segs, stack, rooted) ==
    IF segs = <<>> THEN stack
    ELSE LET s == Head(segs)
             rest == Tail(segs)
         IN  IF s = <<>> \/ s = Dot THEN CleanStack(rest, stack, rooted)
             ELSE IF s = DotDot
                  THEN IF stack # <<>> /\ stack[Len(stack)] # DotDot
                       THEN CleanStack(rest, SubSeq(stack, 1, Len(stack) - 1), rooted)
                       ELSE IF rooted THEN CleanStack(rest, stack, rooted)
                       ELSE CleanStack(rest, Append(stack, s), rooted)
                  ELSE CleanStack(rest, Append(stack, s), rooted)

\* filepath.Clean
Clean(p) ==
    LET st == CleanStack(Split(p), <<>>, IsAbs(p))
    IN  IF IsAbs(p) THEN <<"/">> \o JoinSlash(st)
        ELSE IF st = <<>> THEN Dot
        ELSE JoinSlash(st)

\* filepath.Join of two elements: empty elements are ignored, the result is cleaned
Join(a, b) ==
    IF a = <<>> /\ b = <<>> THEN <<>>
    ELSE IF a = <<>> THEN Clean(b)
    ELSE IF b = <<>> THEN Clean(a)
    ELSE Clean(a \o <<"/">> \o b)

\* the working directory of the process
Cwd == <<"/", "w">>

\* filepath.Abs: a cleaned absolute path, relative paths are joined to the working directory
Abs(p) == IF IsAbs(p) THEN Clean(p) ELSE Join(Cwd, p)

\* filepath.Base: the last element of the path
Base(p) ==
    LET segs == SelectSeq(Split(p), LAMBDA s : s # <<>>)
    IN  IF p = <<>> THEN Dot
        ELSE IF segs = <<>> THEN <<"/">>
        ELSE segs[Len(segs)]

\* the position of the last "." of s, 0 if there is none
RECURSIVE LastDot(_, _)
LastDot(s, i) ==
    IF i = 0 THEN 0
    ELSE IF s[i] = "." THEN i
    ELSE LastDot(s, i - 1)

\* filepath.Ext: the suffix beginning at the final dot of the final element
Ext(p) ==
    LET segs == Split(p)
        last == segs[Len(segs)]
        i == LastDot(last, Len(last))
    IN  IF i = 0 THEN <<>> ELSE SubSeq(last, i, Len(last))

\* slices.Contains
Contains(seq, x) == \E i \in 1..Len(seq) : seq[i] = x

\* the file type of a path: by its suffix
ExtractFileType(p) ==
    IF HasSuffix(p, <<".", "y", "a", "m", "l">>) THEN "YAML"
    ELSE IF HasSuffix(p, <<".", "y", "m", "l">>) THEN "YAML"
    ELSE IF HasSuffix(p, <<".", "j", "s", "o", "n">>) THEN "JSON"
    ELSE "UNSUPPORTED"

(***************************************************************************)
(* The directory tree behind config.DirFS, and the configurations.         *)
(***************************************************************************)
P_hid  == <<".", "h", ".", "y", "a", "m", "l">>
P_a    == <<"a", ".", "y", "a", "m", "l">>
P_b    == <<"b", ".", "y", "a", "m", "l">>
P_c    == <<"c", ".", "j", "s", "o", "n">>
P_d    == <<"d">>
P_dhid == <<"d", "/", ".", "h", ".", "y", "a", "m", "l">>
P_ds   == <<"d", "/", "s", ".", "y", "a", "m", "l">>
P_n    == <<"n", ".", "t", "x", "t">>
P_s    == <<"s", ".", "y", "a", "m", "l">>

\* the entries of the tree in the lexical order in which fs.WalkDir visits them
Tree ==
    << [p |-> Dot,    isDir |-> TRUE],
       [p |-> P_hid,  isDir |-> FALSE],
       [p |-> P_a,    isDir |-> FALSE],
       [p |-> P_b,    isDir |-> FALSE],
       [p |-> P_c,    isDir |-> FALSE],
       [p |-> P_d,    isDir |-> TRUE],
       [p |-> P_dhid, isDir |-> FALSE],
       [p |-> P_ds,   isDir |-> FALSE],
       [p |-> P_n,    isDir |-> FALSE],
       [p |-> P_s,    isDir |-> FALSE] >>

TreeFiles == {Tree[i].p : i \in {j \in 1..Len(Tree) : ~Tree[j].isDir}}

\* the bytes of each file of the tree
FileBytes(p) ==
    IF p = P_a THEN <<"a", "b", "c">>
    ELSE IF p = P_c THEN <<>>
    ELSE IF p = P_ds THEN <<"a", "!">>
    ELSE IF p = P_s THEN <<"a", "b">>
    ELSE <<"a">>

\* config.BaseDirectory: an absolute directory, a relative directory, a
\* single file, a directory whose name has a dot-suffix
B_absdir == <<"/", "r">>
B_reldir == <<"r">>
B_file   == <<"/", "r", "/", "s", ".", "y", "a", "m", "l">>
B_dotdir == <<"/", "r", ".", "v", "2">>

BaseDirectories == {B_absdir, B_reldir, B_file, B_dotdir}

\* config.FileFilters
FileFilterChoices ==
    { <<>>, <<P_a>>, <<P_s, P_n, P_dhid>>, <<P_a, P_c, P_ds>> }

\* what DirFS.Open, File.Stat and io.ReadAll do for a file
FileModes == {"ok", "openErr", "statErr", "readErr"}

\* the files whose open, stat or read may fail
Failable == {P_a, P_b, P_c, P_ds, P_n, P_s}

\* a DirFS: the outcome of opening each file, the directories that cannot
\* be read, and whether the root of the walk can be stat'ed
DirFSChoices ==
    UNION { { [ mode    |-> [p \in TreeFiles |-> IF p \in B THEN m[p] ELSE "ok"],
                badDirs |-> walk.badDirs,
                rootErr |-> walk.rootErr ] :
              m \in [B -> FileModes \ {"ok"}],
              walk \in { [badDirs |-> {}, rootErr |-> FALSE],
                         [badDirs |-> {P_d}, rootErr |-> FALSE],
                         [badDirs |-> {}, rootErr |-> TRUE] } } :
            B \in {S \in SUBSET Failable : Cardinality(S) <= MaxBad} }

\* the path is below directory dir
Below(p, dir) == HasPrefix(p, dir \o <<"/">>)

\* the calls fs.WalkDir makes to its callback for the entries from i on:
\* every entry once; a directory that cannot be read a second time, with
\* the error, and nothing below it
RECURSIVE WalkFrom(_, _)
WalkFrom(fsys, i) ==
    IF i > Len(Tree) THEN <<>>
    ELSE LET e == Tree[i]
             visit == [p |-> e.p, d |-> "entry", isDir |-> e.isDir, err |-> FALSE]
         IN  IF \E dir \in fsys.badDirs : Below(e.p, dir)
             THEN WalkFrom(fsys, i + 1)
             ELSE IF e.p \in fsys.badDirs
                  THEN <<visit, [visit EXCEPT !.err = TRUE]>> \o WalkFrom(fsys, i + 1)
                  ELSE <<visit>> \o WalkFrom(fsys, i + 1)

\* fs.WalkDir(config.DirFS, "."): if the root cannot be stat'ed the
\* callback is called once, without an entry and with the error
WalkCalls(fsys) ==
    IF fsys.rootErr
    THEN << [p |-> Dot, d |-> "nil", isDir |-> FALSE, err |-> TRUE] >>
    ELSE WalkFrom(fsys, 1)

(***************************************************************************)
(* State.                                                                  *)
(***************************************************************************)
VARIABLES
    config,      \* the *LocalFSConfig given to NewLocalFSWithConfig
    pc,          \* "walk" while NewLocalFSWithConfig runs, then "done"
    walkPos,     \* the next call fs.WalkDir makes to the callback
    localFiles,  \* NewLocalFSWithConfig: localFiles
    allErrors,   \* NewLocalFSWithConfig: allErrors
    walkErr,     \* the error returned by the callback, NIL if none
    lfs,         \* the *LocalFS returned, NIL before the return and on failure
    retErr,      \* the error returned by NewLocalFSWithConfig
    nodes,       \* the number of yaml.Node roots allocated; a *yaml.Node is 1..nodes, 0 is nil
    indexes,     \* the SpecIndex objects allocated; a *SpecIndex is a position, 0 is nil
    thr,         \* per thread: the call it is in and the locals of that call
    hist,        \* history, per file: the calls made, the parses and builds done, the results returned
    handles,     \* the localRolodexFile handles returned by Open, with what was read through each
    opened       \* history: the Open calls made and their results

discVars == <<config, pc, walkPos, localFiles, allErrors, walkErr, retErr>>
cacheVars == <<nodes, indexes, thr, hist>>
openVars == <<handles, opened>>

vars == <<discVars, lfs, cacheVars, openVars>>

Threads == {1, 2}

Idle == [pc |-> "idle", f |-> <<>>, root |-> 0, index |-> 0, cached |-> 0]

(***************************************************************************)
(* NewLocalFSWithConfig                                                    *)
(***************************************************************************)
InitDisc ==
    /\ pc = "walk"
    /\ walkPos = 1
    /\ localFiles = << >>
    /\ allErrors = <<>>
    /\ walkErr = NIL
    /\ lfs = NIL
    /\ retErr = NIL
    /\ nodes = 0
    /\ indexes = <<>>
    /\ thr = [t \in Threads |-> Idle]
    /\ hist = << >>
    /\ handles = <<>>
    /\ opened = <<>>

Init ==
    /\ config \in [BaseDirectory : BaseDirectories,
                   FileFilters : FileFilterChoices,
                   DirFS : DirFSChoices]
    /\ InitDisc

\* lines 134-135
ext == Ext(config.BaseDirectory)
file == Base(config.BaseDirectory)

\* a slip: the base names are compared, not the paths
NotTheSingleFile_ByBase(p) == Len(ext) > 2 /\ Base(p) # file

\* lines 156-158: the base directory is a single file and p is another one
NotTheSingleFile(p) == Len(ext) > 2 /\ p # file

\* lines 160-162
Hidden(p) == HasPrefix(p, Dot)

\* a slip: the allow-list is matched against the base name of the path
FilteredOut_ByBase(p) ==
    /\ Len(config.FileFilters) > 0
    /\ ~Contains(config.FileFilters, Base(p))

\* lines 164-168
FilteredOut(p) ==
    /\ Len(config.FileFilters) > 0
    /\ ~Contains(config.FileFilters, p)

\* line 172
AbsOf(p) == Abs(Join(config.BaseDirectory, p))

\* a slip: the record keeps the path relative to the root as its full path
NewLocalFile_RelPath(p, abs, modTime, readingErrors) ==
    [ filename      |-> p,
      name          |-> Base(p),
      extension     |-> ExtractFileType(p),
      data          |-> FileBytes(p),
      fullPath      |-> p,
      lastModified  |-> modTime,
      readingErrors |-> readingErrors,
      index         |-> 0,
      parsed        |-> 0 ]

\* lines 209-217
NewLocalFile(p, abs, modTime, readingErrors) ==
    [ filename      |-> p,
      name          |-> Base(p),
      extension     |-> ExtractFileType(p),
      data          |-> FileBytes(p),
      fullPath      |-> abs,
      lastModified  |-> modTime,
      readingErrors |-> readingErrors,
      index         |-> 0,
      parsed        |-> 0 ]

\* lines 185-190: DirFS.Open failed; the error is recorded and the walk goes on
OpenFailed(p, st) ==
    [st EXCEPT !.allErrors = Append(@, [op |-> "open", path |-> p])]

\* a slip: the stat error is recorded for the walk only, not for the file
StatFailed_NotOnFile(p, st) ==
    [st EXCEPT !.allErrors = Append(@, [op |-> "stat", path |-> p])]

\* lines 192-196: File.Stat failed; the error is recorded
StatFailed(p, st) ==
    [st EXCEPT !.allErrors = Append(@, [op |-> "stat", path |-> p]),
               !.readingErrors = Append(@, [op |-> "stat", path |-> p])]

\* a slip: the read error is returned to fs.WalkDir
ReadFailed_Aborts(p, st) ==
    [st EXCEPT !.allErrors = Append(@, [op |-> "read", path |-> p]),
               !.ret = [op |-> "read", path |-> p]]

\* lines 201-206: io.ReadAll failed; the error is recorded and the walk goes on
ReadFailed(p, st) ==
    [st EXCEPT !.allErrors = Append(@, [op |-> "read", path |-> p])]

\* lines 208-217: the file is put into localFiles under its absolute path
Collect(p, abs, modTime, st) ==
    [st EXCEPT !.localFiles =
        (abs :> NewLocalFile(p, abs, modTime, st.readingErrors)) @@ @]

\* a slip: the file is opened, stat'ed and read whatever its type
ReadFile_AnyType(p, abs, st) ==
    LET mode == config.DirFS.mode[p]
    IN  IF mode = "openErr" THEN OpenFailed(p, st)
        ELSE IF mode = "statErr" THEN Collect(p, abs, "now", StatFailed(p, st))
        ELSE IF mode = "readErr" THEN ReadFailed(p, st)
        ELSE Collect(p, abs, "stat", st)

\* lines 180-220: a YAML or JSON file is opened, stat'ed and read
ReadFile(p, abs, st) ==
    LET mode == config.DirFS.mode[p]
    IN  IF ExtractFileType(p) = "UNSUPPORTED" THEN st
        ELSE IF mode = "openErr" THEN OpenFailed(p, st)
        ELSE IF mode = "statErr" THEN Collect(p, abs, "now", StatFailed(p, st))
        ELSE IF mode = "readErr" THEN ReadFailed(p, st)
        ELSE Collect(p, abs, "stat", st)

\* the callback given to fs.WalkDir (lines 146-222), called with c: what it
\* does to localFiles and allErrors, and the error it returns
WalkFn(c, st) ==
    IF c.err THEN [st EXCEPT !.ret = [op |-> "walk", path |-> c.p]]
    ELSE IF c.d = "nil" \/ c.isDir THEN st
    ELSE IF NotTheSingleFile(c.p) THEN st
    ELSE IF Hidden(c.p) THEN st
    ELSE IF FilteredOut(c.p) THEN st
    ELSE ReadFile(c.p, AbsOf(c.p), st)

\* fs.WalkDir makes its next call to the callback; an error returned by
\* the callback ends the walk
WalkDirFn ==
    /\ pc = "walk"
    /\ walkErr = NIL
    /\ walkPos <= Len(WalkCalls(config.DirFS))
    /\ LET st == WalkFn(WalkCalls(config.DirFS)[walkPos],
                        [localFiles |-> localFiles, allErrors |-> allErrors,
                         readingErrors |-> <<>>, ret |-> NIL])
       IN  /\ localFiles' = st.localFiles
           /\ allErrors' = st.allErrors
           /\ walkErr' = st.ret
    /\ walkPos' = walkPos + 1
    /\ UNCHANGED <<config, pc, lfs, retErr, cacheVars, openVars>>

\* nothing has been called on a file yet
NoHistory ==
    [ gCalls |-> 0, iCalls |-> 0, gDone |-> 0, iDone |-> 0,
      gParses |-> 0, iParses |-> 0, builds |-> 0,
      retTrees |-> {}, retIdx |-> {}, reused |-> {}, overlap |-> FALSE ]

\* lines 224-234: the walk is over
NewLocalFSReturn ==
    /\ pc = "walk"
    /\ walkErr # NIL \/ walkPos > Len(WalkCalls(config.DirFS))
    /\ pc' = "done"
    /\ IF walkErr # NIL
       THEN /\ lfs' = NIL
            /\ retErr' = walkErr
       ELSE /\ lfs' = [ Files               |-> localFiles,
                        baseDirectory       |-> Abs(config.BaseDirectory),
                        entryPointDirectory |-> config.BaseDirectory,
                        readingErrors       |-> allErrors ]
            /\ retErr' = NIL
    /\ hist' = [f \in DOMAIN localFiles |-> NoHistory]
    /\ UNCHANGED <<config, walkPos, localFiles, allErrors, walkErr>>
    /\ UNCHANGED <<nodes, indexes, thr, openVars>>

NextDisc == WalkDirFn \/ NewLocalFSReturn

Spec == Init /\ [][NextDisc]_vars

(***************************************************************************)
(* LocalFile.GetContentAsYAMLNode and LocalFile.Index.  The methods take   *)
(* no lock: a call is a sequence of steps, one for each access to the      *)
(* fields of the LocalFile, and the steps of the threads interleave.       *)
(***************************************************************************)
\* NewLocalFSWithConfig has returned a LocalFS
Ready == pc = "done" /\ lfs # NIL

\* yaml.Unmarshal (line 99) and the parse made by
\* datamodel.ExtractSpecInfoWithDocumentCheck (line 72) succeed on these bytes
WellFormed(data) == \A i \in 1..Len(data) : data[i] # "!"

\* datamodel.ExtractSpecInfoWithDocumentCheck(content, true): the bytes are
\* parsed into a new root node, or the parse fails
ExtractSpecInfoWithDocumentCheck(content) == [ok |-> WellFormed(content)]

\* NewSpecIndexWithConfig(rootNode, config): a new index over the root node
NewSpecIndexWithConfig(rootNode) == [root |-> rootNode, specAbsolutePath |-> <<>>]

\* line 66
IndexCached(l) == l.index # 0

\* a slip: the cached tree is not looked at
ParsedCached_Never(l) == FALSE

\* line 89
ParsedCached(l) == l.parsed # 0

\* line 92
IndexHasRoot(l) == l.index # 0 /\ indexes[l.index].root # 0

\* a call on file f begins in thread t: another thread is inside a call on f
Overlaps(t, f) == \E u \in Threads \ {t} : thr[u].pc # "idle" /\ thr[u].f = f

\* the calls begun so far
CallsBegun ==
    LET RECURSIVE Sum(_)
        Sum(S) == IF S = {} THEN 0
                  ELSE LET f == CHOOSE x \in S : TRUE
                       IN  hist[f].gCalls + hist[f].iCalls + Sum(S \ {f})
    IN  Sum(DOMAIN hist)

\* GetContentAsYAMLNode is called on file f, lines 89-91
GetContentAsYAMLNode_Parsed(t, f) ==
    /\ Ready
    /\ thr[t].pc = "idle"
    /\ CallsBegun < MaxCalls
    /\ IF ParsedCached(lfs.Files[f])
       THEN /\ hist' = [hist EXCEPT ![f].gCalls = @ + 1,
                                    ![f].gDone = @ + 1,
                                    ![f].overlap = @ \/ Overlaps(t, f),
                                    ![f].retTrees = @ \cup {lfs.Files[f].parsed}]
            /\ UNCHANGED thr
       ELSE /\ hist' = [hist EXCEPT ![f].gCalls = @ + 1,
                                    ![f].overlap = @ \/ Overlaps(t, f)]
            /\ thr' = [thr EXCEPT ![t] = [Idle EXCEPT !.pc = "g92", !.f = f]]
    /\ UNCHANGED <<discVars, lfs, nodes, indexes, openVars>>

\* lines 92-94
GetContentAsYAMLNode_IndexRoot(t) ==
    /\ thr[t].pc = "g92"
    /\ LET f == thr[t].f
       IN  IF IndexHasRoot(lfs.Files[f])
           THEN /\ hist' = [hist EXCEPT ![f].gDone = @ + 1,
                                        ![f].retTrees =
                                            @ \cup {indexes[lfs.Files[f].index].root}]
                /\ thr' = [thr EXCEPT ![t] = Idle]
           ELSE /\ thr' = [thr EXCEPT ![t].pc = "g95"]
                /\ UNCHANGED hist
    /\ UNCHANGED <<discVars, lfs, nodes, indexes, openVars>>

\* a slip: the root node is stored in l.parsed before the error is looked at
GetContentAsYAMLNode_Unmarshal_CachesFailure(t) ==
    /\ thr[t].pc = "g95"
    /\ LET f == thr[t].f
       IN  IF WellFormed(lfs.Files[f].data)
           THEN /\ nodes' = nodes + 1
                /\ thr' = [thr EXCEPT ![t].pc = "g103", ![t].root = nodes + 1]
                /\ hist' = [hist EXCEPT ![f].gParses = @ + 1]
                /\ UNCHANGED lfs
           ELSE /\ thr' = [thr EXCEPT ![t] = Idle]
                /\ hist' = [hist EXCEPT ![f].gParses = @ + 1]
                /\ nodes' = nodes + 1
                /\ lfs' = [lfs EXCEPT !.Files[f].parsed = nodes + 1]
    /\ UNCHANGED <<discVars, indexes, openVars>>

\* lines 95-102: the bytes are parsed into a new root node; data is never
\* nil, io.ReadAll returns an empty slice for an empty file
GetContentAsYAMLNode_Unmarshal(t) ==
    /\ thr[t].pc = "g95"
    /\ LET f == thr[t].f
       IN  IF WellFormed(lfs.Files[f].data)
           THEN /\ nodes' = nodes + 1
                /\ thr' = [thr EXCEPT ![t].pc = "g103", ![t].root = nodes + 1]
                /\ hist' = [hist EXCEPT ![f].gParses = @ + 1]
           ELSE /\ thr' = [thr EXCEPT ![t] = Idle]
                /\ hist' = [hist EXCEPT ![f].gParses = @ + 1]
                /\ UNCHANGED nodes
    /\ UNCHANGED <<discVars, lfs, indexes, openVars>>

\* lines 103-105
GetContentAsYAMLNode_SetIndexRoot(t) ==
    /\ thr[t].pc = "g103"
    /\ LET l == lfs.Files[thr[t].f]
       IN  IF l.index # 0 /\ indexes[l.index].root = 0
           THEN indexes' = [indexes EXCEPT ![l.index].root = thr[t].root]
           ELSE UNCHANGED indexes
    /\ thr' = [thr EXCEPT ![t].pc = "g106"]
    /\ UNCHANGED <<discVars, lfs, nodes, hist, openVars>>

\* lines 106-107
GetContentAsYAMLNode_Store(t) ==
    /\ thr[t].pc = "g106"
    /\ LET f == thr[t].f
       IN  /\ lfs' = [lfs EXCEPT !.Files[f].parsed = thr[t].root]
           /\ hist' = [hist EXCEPT ![f].gDone = @ + 1,
                                   ![f].retTrees = @ \cup {thr[t].root}]
    /\ thr' = [thr EXCEPT ![t] = Idle]
    /\ UNCHANGED <<discVars, nodes, indexes, openVars>>

\* Index is called on file f, lines 66-68
Index_Cached(t, f) ==
    /\ Ready
    /\ thr[t].pc = "idle"
    /\ CallsBegun < MaxCalls
    /\ IF IndexCached(lfs.Files[f])
       THEN /\ hist' = [hist EXCEPT ![f].iCalls = @ + 1,
                                    ![f].iDone = @ + 1,
                                    ![f].overlap = @ \/ Overlaps(t, f),
                                    ![f].retIdx = @ \cup {lfs.Files[f].index}]
            /\ UNCHANGED thr
       ELSE /\ hist' = [hist EXCEPT ![f].iCalls = @ + 1,
                                    ![f].overlap = @ \/ Overlaps(t, f)]
            /\ thr' = [thr EXCEPT ![t] = [Idle EXCEPT !.pc = "i72", !.f = f,
                                                      !.cached = lfs.Files[f].parsed]]
    /\ UNCHANGED <<discVars, lfs, nodes, indexes, openVars>>

\* lines 69-78: the bytes are parsed, an index is built over the new root
\* node and stamped with the path of the file
Index_Build(t) ==
    /\ thr[t].pc = "i72"
    /\ LET f == thr[t].f
           content == lfs.Files[f].data
           RootNode == nodes + 1
           index == [NewSpecIndexWithConfig(RootNode)
                        EXCEPT !.specAbsolutePath = lfs.Files[f].fullPath]
       IN  IF ExtractSpecInfoWithDocumentCheck(content).ok
           THEN /\ nodes' = nodes + 1
                /\ indexes' = Append(indexes, index)
                /\ thr' = [thr EXCEPT ![t].pc = "i79", ![t].root = RootNode,
                                      ![t].index = Len(indexes) + 1]
                /\ hist' = [hist EXCEPT ![f].iParses = @ + 1,
                                        ![f].builds = @ + 1,
                                        ![f].reused = IF thr[t].cached = 0 THEN @
                                            ELSE @ \cup {[tree |-> thr[t].cached,
                                                          root |-> RootNode]}]
           ELSE /\ thr' = [thr EXCEPT ![t] = Idle]
                /\ hist' = [hist EXCEPT ![f].iParses = @ + 1]
                /\ UNCHANGED <<nodes, indexes>>
    /\ UNCHANGED <<discVars, lfs, openVars>>

\* lines 79-80
Index_Store(t) ==
    /\ thr[t].pc = "i79"
    /\ LET f == thr[t].f
       IN  /\ lfs' = [lfs EXCEPT !.Files[f].index = thr[t].index]
           /\ hist' = [hist EXCEPT ![f].iDone = @ + 1,
                                   ![f].retIdx = @ \cup {thr[t].index}]
    /\ thr' = [thr EXCEPT ![t] = Idle]
    /\ UNCHANGED <<discVars, nodes, indexes, openVars>>

NextCache ==
    \/ WalkDirFn
    \/ NewLocalFSReturn
    \/ \E t \in Threads, f \in DOMAIN hist : GetContentAsYAMLNode_Parsed(t, f)
    \/ \E t \in Threads : GetContentAsYAMLNode_IndexRoot(t)
    \/ \E t \in Threads : GetContentAsYAMLNode_Unmarshal(t)
    \/ \E t \in Threads : GetContentAsYAMLNode_SetIndexRoot(t)
    \/ \E t \in Threads : GetContentAsYAMLNode_Store(t)
    \/ \E t \in Threads, f \in DOMAIN hist : Index_Cached(t, f)
    \/ \E t \in Threads : Index_Build(t)
    \/ \E t \in Threads : Index_Store(t)

\* the files a.yaml (well-formed) and d/s.yaml (malformed) of directory /r
CacheConfig ==
    [ BaseDirectory |-> B_absdir,
      FileFilters   |-> <<P_a, P_ds>>,
      DirFS         |-> [mode |-> [p \in TreeFiles |-> "ok"],
                         badDirs |-> {}, rootErr |-> FALSE] ]

InitCache == config = CacheConfig /\ InitDisc

SpecCache == InitCache /\ [][NextCache]_vars

(***************************************************************************)
(* LocalFS.Open and localRolodexFile.Read                                  *)
(***************************************************************************)
N_dot_a   == <<".", "/">> \o P_a
N_d_up_a  == <<"d", "/", ".", ".", "/">> \o P_a
N_x       == <<"x", ".", "y", "a", "m", "l">>
N_abs_a   == <<"/", "r", "/">> \o P_a
N_abs_dot_a  == <<"/", "r", "/", ".", "/">> \o P_a
N_abs_x   == <<"/", "r", "/">> \o N_x

\* the names given to Open
OpenNames ==
    { P_a, N_dot_a, N_d_up_a, P_c, N_x,
      N_abs_a, N_abs_dot_a, N_abs_x }

\* lines 34-40: the key under which Open looks the name up
OpenPath(name) ==
    IF ~IsAbs(name) THEN Abs(Join(lfs.baseDirectory, name)) ELSE name

\* a slip: the error carries the name as given, not the path looked up
OpenResult_GivenName(name) ==
    LET path == OpenPath(name)
    IN  IF path \in DOMAIN lfs.Files
        THEN [name |-> name, ok |-> TRUE, f |-> path, err |-> NIL]
        ELSE [name |-> name, ok |-> FALSE, f |-> <<>>,
              err |-> [op |-> "open", path |-> name, err |-> "ErrNotExist"]]

\* lines 42-46: the result of Open
OpenResult(name) ==
    LET path == OpenPath(name)
    IN  IF path \in DOMAIN lfs.Files
        THEN [name |-> name, ok |-> TRUE, f |-> path, err |-> NIL]
        ELSE [name |-> name, ok |-> FALSE, f |-> <<>>,
              err |-> [op |-> "open", path |-> path, err |-> "ErrNotExist"]]

\* a slip: the offset of a new handle is one before the start
NewHandle_BeforeStart(f) ==
    [ f |-> f, offset |-> 0 - 1,
      got |-> <<>>, cap |-> 0, n |-> 0, err |-> NIL, closed |-> FALSE ]

\* line 43: a new handle on file f
NewHandle(f) ==
    [ f |-> f, offset |-> 0,
      got |-> <<>>, cap |-> 0, n |-> 0, err |-> NIL, closed |-> FALSE ]

Open(name) ==
    /\ Ready
    /\ Len(opened) < MaxOpens
    /\ LET r == OpenResult(name)
       IN  /\ opened' = Append(opened,
                  [r EXCEPT !.f = IF r.ok THEN Len(handles) + 1 ELSE 0])
           /\ handles' = IF r.ok THEN Append(handles, NewHandle(r.f)) ELSE handles
    /\ UNCHANGED <<discVars, lfs, cacheVars>>

Min(a, b) == IF a < b THEN a ELSE b

\* a slip: end-of-stream is reported only when the offset is past the end
ReadHandle_LateEOF(r, cap) ==
    LET content == lfs.Files[r.f].data
    IN  IF r.offset > Len(content)
        THEN [r EXCEPT !.cap = cap, !.n = 0, !.err = [err |-> "EOF"]]
        ELSE IF r.offset < 0
        THEN [r EXCEPT !.cap = cap, !.n = 0, !.err = [err |-> "ErrInvalid"]]
        ELSE LET n == Min(cap, Len(content) - r.offset)
             IN  [r EXCEPT !.offset = @ + n,
                           !.got = @ \o SubSeq(content, r.offset + 1, r.offset + n),
                           !.cap = cap,
                           !.n = n,
                           !.err = NIL]

\* lines 286-296: Read into a buffer of length cap through handle r; got is
\* the history of the bytes copied through the handle, cap, n and err are
\* the buffer length of the last Read and what it returned
ReadHandle(r, cap) ==
    LET content == lfs.Files[r.f].data
    IN  IF r.offset >= Len(content)
        THEN [r EXCEPT !.cap = cap, !.n = 0, !.err = [err |-> "EOF"]]
        ELSE IF r.offset < 0
        THEN [r EXCEPT !.cap = cap, !.n = 0, !.err = [err |-> "ErrInvalid"]]
        ELSE LET n == Min(cap, Len(content) - r.offset)
             IN  [r EXCEPT !.offset = @ + n,
                           !.got = @ \o SubSeq(content, r.offset + 1, r.offset + n),
                           !.cap = cap,
                           !.n = n,
                           !.err = NIL]

\* a slip: the offset is kept per file, not per handle
DoRead_SharedOffset(hs, h, cap) ==
    [i \in DOMAIN hs |->
        IF i = h THEN ReadHandle(hs[h], cap)
        ELSE IF hs[i].f = hs[h].f
             THEN [hs[i] EXCEPT !.offset = ReadHandle(hs[h], cap).offset]
             ELSE hs[i]]

\* the handles after a Read through handle h
DoRead(hs, h, cap) == [hs EXCEPT ![h] = ReadHandle(hs[h], cap)]

Read(h, cap) ==
    /\ handles' = DoRead(handles, h, cap)
    /\ UNCHANGED <<discVars, lfs, cacheVars, opened>>

NextOpen ==
    \/ WalkDirFn
    \/ NewLocalFSReturn
    \/ \E name \in OpenNames : Open(name)
    \/ \E h \in DOMAIN handles, cap \in 1..MaxBuf : Read(h, cap)

\* the files a.yaml, c.json (empty) and d/s.yaml of directory /r
OpenConfig ==
    [ BaseDirectory |-> B_absdir,
      FileFilters   |-> <<P_a, P_c, P_ds>>,
      DirFS         |-> [mode |-> [p \in TreeFiles |-> "ok"],
                         badDirs |-> {}, rootErr |-> FALSE] ]

InitOpen == config = OpenConfig /\ InitDisc

SpecOpen == InitOpen /\ [][NextOpen]_vars

(***************************************************************************)
(* Every operation on a LocalFS: Open, the methods of the handles and the  *)
(* methods of the LocalFiles, in any order.                                *)
(***************************************************************************)
\* lines 282-284: Stat returns the file of the handle and changes nothing
Stat(h) ==
    /\ h \in DOMAIN handles
    /\ UNCHANGED vars

\* a slip: Close releases the bytes of the file
Close_ReleasesData(h) ==
    /\ handles' = [handles EXCEPT ![h].closed = TRUE]
    /\ lfs' = [lfs EXCEPT !.Files[handles[h].f].data = <<>>]
    /\ UNCHANGED <<discVars, cacheVars, opened>>

\* lines 278-280: Close does nothing and returns nil; closed is the history
\* of the call
Close(h) ==
    /\ handles' = [handles EXCEPT ![h].closed = TRUE]
    /\ UNCHANGED <<discVars, lfs, cacheVars, opened>>

\* the names given to Open: of an entry, of no entry, absolute
AllNames == {P_a, N_x, N_abs_a}

\* the calls of Open, GetContentAsYAMLNode and Index begun are fewer than MaxAll
Budget == CallsBegun + Len(opened) < MaxAll

NextAll ==
    \/ WalkDirFn
    \/ NewLocalFSReturn
    \/ \E t \in Threads, f \in DOMAIN hist : Budget /\ GetContentAsYAMLNode_Parsed(t, f)
    \/ \E t \in Threads : GetContentAsYAMLNode_IndexRoot(t)
    \/ \E t \in Threads : GetContentAsYAMLNode_Unmarshal(t)
    \/ \E t \in Threads : GetContentAsYAMLNode_SetIndexRoot(t)
    \/ \E t \in Threads : GetContentAsYAMLNode_Store(t)
    \/ \E t \in Threads, f \in DOMAIN hist : Budget /\ Index_Cached(t, f)
    \/ \E t \in Threads : Index_Build(t)
    \/ \E t \in Threads : Index_Store(t)
    \/ \E name \in AllNames : Budget /\ Open(name)
    \/ \E h \in DOMAIN handles : Read(h, MaxBuf)
    \/ \E h \in DOMAIN handles : Stat(h)
    \/ \E h \in DOMAIN handles : Close(h)

SpecAll == InitCache /\ [][NextAll]_vars

(***************************************************************************)
(* Properties of the lazily cached parse and index (SpecCache).            *)
(***************************************************************************)
\* no two calls on file f were ever in progress at the same time
Sequential(f) == ~hist[f].overlap

\* no call on file f is in progress
Quiet(f) == \A t \in Threads : thr[t].pc = "idle" \/ thr[t].f # f

\* C1: when threads call Index on the same LocalFile concurrently, the
\* index is built at most once and every caller returns the same index.
C1_IndexBuiltOnce ==
    \A f \in DOMAIN hist :
        /\ hist[f].builds <= 1
        /\ Cardinality(hist[f].retIdx) <= 1

C3_TreeReused ==
    \A f \in DOMAIN hist :
        (Sequential(f) /\ WellFormed(lfs.Files[f].data))
            => /\ hist[f].gParses + hist[f].iParses <= 1
               /\ \A r \in hist[f].reused : r.root = r.tree

\* C4: when threads call GetContentAsYAMLNode on the same LocalFile
\* concurrently, every call returns the same tree, and it is the tree left
\* in the cache of the file.
C4_TreeShared ==
    \A f \in DOMAIN hist :
        hist[f].iCalls = 0
            => /\ Cardinality(hist[f].retTrees) <= 1
               /\ (Quiet(f) /\ hist[f].retTrees # {})
                      => hist[f].retTrees = {lfs.Files[f].parsed}

(***************************************************************************)
(* Properties of Open and Read (SpecOpen).                                 *)
(***************************************************************************)
\* the absolute path a name normalizes to
Normalized(name) ==
    Clean(IF IsAbs(name) THEN name ELSE lfs.baseDirectory \o <<"/">> \o name)

\* C5: Open of two paths that normalize to the same absolute path of a
\* discovered file succeeds for both and returns handles on the same file.
C5_OpenIdentity ==
    \A i, j \in DOMAIN opened :
        ( /\ Normalized(opened[i].name) = Normalized(opened[j].name)
          /\ Normalized(opened[i].name) \in DOMAIN lfs.Files )
            => /\ opened[i].ok
               /\ opened[j].ok
               /\ handles[opened[i].f].f = handles[opened[j].f].f
               /\ handles[opened[i].f].f = Normalized(opened[i].name)

\* C6: handles have independent read cursors: what has been read through a
\* handle is the content of its file up to its offset, it is the whole
\* content at end-of-stream, and a Read through one handle leaves the
\* offset of every other handle as it is.
C6_ReadCursorIsolation ==
    /\ [](\A h \in DOMAIN handles :
            LET content == lfs.Files[handles[h].f].data
            IN  /\ handles[h].got = SubSeq(content, 1, handles[h].offset)
                /\ handles[h].err = [err |-> "EOF"] => handles[h].got = content)
    /\ [][\A h, k \in DOMAIN handles :
            (h # k /\ handles'[h] # handles[h])
                => handles'[k].offset = handles[k].offset]_vars

\* two handles on the three bytes of a.yaml, opened by different names: one
\* has read to the end-of-stream while the other is in the middle
C6_Witness ==
    \E h, k \in DOMAIN handles :
        /\ h # k
        /\ handles[h].f = handles[k].f
        /\ Len(lfs.Files[handles[h].f].data) = 3
        /\ handles[h].err = [err |-> "EOF"]
        /\ handles[h].offset = 3
        /\ handles[k].offset = 1
        /\ \E i, j \in DOMAIN opened :
              /\ opened[i].f = h
              /\ opened[j].f = k
              /\ opened[i].name # opened[j].name

(***************************************************************************)
(* Properties of the discovery (Spec).                                     *)
(***************************************************************************)
\* the calls the callback has returned from
CallsDone == SubSeq(WalkCalls(config.DirFS), 1, walkPos - 1)

\* the files the callback has been called with
WalkedFiles ==
    LET done == CallsDone
    IN  {done[i].p : i \in {j \in 1..Len(done) : ~done[j].isDir /\ ~done[j].err}}

\* fs.WalkDir has called the callback with an error
EntryErrorSurfaced ==
    LET done == CallsDone
    IN  \E i \in 1..Len(done) : done[i].err

\* the file cannot be opened or cannot be read
Unreadable(p) == config.DirFS.mode[p] \in {"openErr", "readErr"}

\* the path is an element of the allow-list
InAllowList(p) == \E i \in 1..Len(config.FileFilters) : config.FileFilters[i] = p

\* the file passes the gates other than the allow-list: the one file of a
\* single-file root, not hidden, YAML or JSON
PassesOtherGates(p) ==
    /\ ~NotTheSingleFile(p)
    /\ ~Hidden(p)
    /\ ExtractFileType(p) \in {"YAML", "JSON"}

\* the file passes every gate
Eligible(p) ==
    /\ PassesOtherGates(p)
    /\ Len(config.FileFilters) > 0 => InAllowList(p)

\* C7: a file that cannot be opened or read is a partial failure: it is
\* absent from the entries and leaves an error in the errors of the walk,
\* every other eligible file walked is an entry with its full content, and
\* NewLocalFSWithConfig succeeds with these entries and errors unless
\* fs.WalkDir itself surfaced an error.
C7_PartialFailure ==
    /\ \A p \in WalkedFiles :
          Eligible(p) =>
              IF Unreadable(p)
              THEN /\ AbsOf(p) \notin DOMAIN localFiles
                   /\ \E i \in 1..Len(allErrors) : allErrors[i].path = p
              ELSE /\ AbsOf(p) \in DOMAIN localFiles
                   /\ localFiles[AbsOf(p)].data = FileBytes(p)
    /\ (pc = "done" /\ ~EntryErrorSurfaced)
          => /\ retErr = NIL
             /\ lfs # NIL
             /\ lfs.Files = localFiles
             /\ lfs.readingErrors = allErrors

\* b.yaml cannot be opened or read; a.yaml, walked before it, and c.json,
\* walked after it, are entries of the LocalFS returned
C7_Witness ==
    /\ pc = "done"
    /\ lfs # NIL
    /\ config.FileFilters = <<>>
    /\ Unreadable(P_b)
    /\ Eligible(P_b)
    /\ AbsOf(P_b) \notin DOMAIN lfs.Files
    /\ {AbsOf(P_a), AbsOf(P_c)} \subseteq DOMAIN lfs.Files
    /\ lfs.readingErrors # <<>>

\* C8: an error fs.WalkDir surfaces for an entry after the walk has started
\* is not fatal: NewLocalFSWithConfig returns a LocalFS with the entries
\* collected.
C8_EntryErrorNonFatal ==
    (pc = "done" /\ ~config.DirFS.rootErr)
        => /\ retErr = NIL
           /\ lfs # NIL
           /\ lfs.Files = localFiles

\* C9: with a non-empty allow-list a walked file is an entry if and only if
\* its relative path is an element of the allow-list and it passes the
\* other gates and can be read; the LocalFS returned has these entries.
C9_FilterScoping ==
    Len(config.FileFilters) > 0
        => /\ LET walked == WalkedFiles
              IN  /\ \A p \in walked :
                        AbsOf(p) \in DOMAIN localFiles
                            <=> (InAllowList(p) /\ PassesOtherGates(p) /\ ~Unreadable(p))
                  /\ \A k \in DOMAIN localFiles :
                        /\ localFiles[k].fullPath = k
                        /\ localFiles[k].filename \in walked
                        /\ k = AbsOf(localFiles[k].filename)
           /\ lfs # NIL => lfs.Files = localFiles

\* allow-list [a.yaml] over a directory with a.yaml, b.yaml, c.json: the
\* one entry is a.yaml
C9_Witness ==
    /\ pc = "done"
    /\ lfs # NIL
    /\ config.BaseDirectory = B_absdir
    /\ config.FileFilters = <<P_a>>
    /\ {P_a, P_b, P_c} \subseteq WalkedFiles
    /\ DOMAIN lfs.Files = {AbsOf(P_a)}
    /\ lfs.Files[AbsOf(P_a)].filename = P_a

\* the base directory is itself the path of a YAML or JSON file
SingleFileRoot == ExtractFileType(config.BaseDirectory) \in {"YAML", "JSON"}

\* C10: when the base directory is itself a file path, every entry has the
\* base name of the root as its relative name and there is at most one
\* entry; there is exactly one when that file has been walked, can be read
\* and is admitted by the allow-list, whatever other files are walked.
C10_SingleFileRoot ==
    SingleFileRoot
        => /\ \A k \in DOMAIN localFiles :
                 localFiles[k].filename = Base(config.BaseDirectory)
           /\ Cardinality(DOMAIN localFiles) <= 1
           /\ ( /\ Base(config.BaseDirectory) \in WalkedFiles
                /\ ~Unreadable(Base(config.BaseDirectory))
                /\ Len(config.FileFilters) > 0 => InAllowList(Base(config.BaseDirectory)) )
                  => Cardinality(DOMAIN localFiles) = 1
           /\ lfs # NIL => lfs.Files = localFiles

\* root /r/s.yaml: d/s.yaml and the other files have been walked, the one
\* entry of the LocalFS returned is s.yaml
C10_Witness ==
    /\ pc = "done"
    /\ lfs # NIL
    /\ config.BaseDirectory = B_file
    /\ {P_a, P_ds, P_s} \subseteq WalkedFiles
    /\ Cardinality(DOMAIN lfs.Files) = 1
    /\ \A k \in DOMAIN lfs.Files : lfs.Files[k].filename = P_s

(***************************************************************************)
(* More properties of Open (SpecOpen).                                     *)
(***************************************************************************)
\* the absolute path a name resolves to: a relative name is joined to the
\* base directory, an absolute name is taken as given
Resolved(name) ==
    IF IsAbs(name) THEN name ELSE Clean(lfs.baseDirectory \o <<"/">> \o name)

\* C11: Open of a path whose resolved absolute path has no entry returns no
\* handle and the error fs.ErrNotExist carrying the resolved path; Open of
\* a path whose resolved absolute path has an entry returns a handle on
\* that entry and no error.
C11_NotFound ==
    /\ \A i \in DOMAIN opened :
          IF Resolved(opened[i].name) \in DOMAIN lfs.Files
          THEN /\ opened[i].ok
               /\ opened[i].err = NIL
               /\ opened[i].f \in DOMAIN handles
               /\ handles[opened[i].f].f = Resolved(opened[i].name)
          ELSE /\ ~opened[i].ok
               /\ opened[i].f = 0
               /\ opened[i].err = [op |-> "open", path |-> Resolved(opened[i].name),
                                   err |-> "ErrNotExist"]
    /\ Len(handles) = Cardinality({i \in DOMAIN opened : opened[i].ok})

\* x.yaml, a relative name without an entry, was not found, with /r/x.yaml
\* in the error; a.yaml was opened
C11_Witness ==
    /\ \E i \in DOMAIN opened :
          /\ opened[i].name = N_x
          /\ ~opened[i].ok
          /\ opened[i].err.path = N_abs_x
    /\ \E i \in DOMAIN opened : opened[i].name = P_a /\ opened[i].ok

(***************************************************************************)
(* More properties of the lazily cached parse and index (SpecCache).       *)
(***************************************************************************)
\* the bytes are not a document
Malformed(data) == \E i \in 1..Len(data) : data[i] = "!"

\* C12: failures are never cached: the parsed tree and the index of a file
\* with malformed content stay unset, every call on it parses again, and a
\* call that returns an error leaves the LocalFS and the indexes as they
\* were.
C12_FailuresNotCached ==
    /\ [](Ready =>
            \A f \in DOMAIN lfs.Files :
                Malformed(lfs.Files[f].data)
                    => /\ lfs.Files[f].parsed = 0
                       /\ lfs.Files[f].index = 0
                       /\ hist[f].gDone = 0
                       /\ hist[f].iDone = 0
                       /\ Quiet(f) => /\ hist[f].gParses = hist[f].gCalls
                                      /\ hist[f].iParses = hist[f].iCalls)
    /\ [][\A t \in Threads :
            (thr[t].pc \in {"g95", "i72"} /\ thr'[t].pc = "idle")
                => (lfs' = lfs /\ indexes' = indexes)]_vars

\* on the malformed d/s.yaml two calls of GetContentAsYAMLNode and one of
\* Index have failed, each after a parse of its own
C12_Witness ==
    /\ Ready
    /\ \E f \in DOMAIN lfs.Files :
          /\ Malformed(lfs.Files[f].data)
          /\ Quiet(f)
          /\ hist[f].gCalls >= 2
          /\ hist[f].gParses = hist[f].gCalls
          /\ hist[f].iCalls >= 1
          /\ hist[f].iParses = hist[f].iCalls
          /\ lfs.Files[f].parsed = 0
          /\ lfs.Files[f].index = 0

(***************************************************************************)
(* More properties of the discovery (Spec).                                *)
(***************************************************************************)
\* the file name (base name) begins with the hidden-file marker
HiddenName(p) == HasPrefix(Base(p), Dot)

\* C13: no entry has a file name (base name) that begins with '.', at any
\* depth of the walk.
C13_NoHiddenEntries ==
    \A k \in DOMAIN localFiles : ~HiddenName(localFiles[k].filename)

\* C14: a root without a YAML or JSON extension is a directory, also when
\* its name has a dot-suffix: every walked file that is not hidden, is YAML
\* or JSON, can be opened and read and passes the allow-list is an entry.
C14_DirectoryRoot ==
    ~SingleFileRoot
        => LET walked == WalkedFiles
           IN  \A p \in walked :
                  ( /\ ~HiddenName(p)
                    /\ ExtractFileType(p) \in {"YAML", "JSON"}
                    /\ ~Unreadable(p)
                    /\ Len(config.FileFilters) > 0 => InAllowList(p) )
                      => AbsOf(p) \in DOMAIN localFiles

\* C15: a YAML or JSON candidate whose stat fails and whose open and read
\* succeed is an entry with its full content; the stat error is in the
\* errors of the record and in the errors of the walk, the modification
\* time is the time of discovery, and the walk goes on: the callback returns
\* no error for it.  A record whose stat succeeded has the modification
\* time of the stat result and no errors.
C15_StatFailureNonBlocking ==
    LET walked == WalkedFiles
        surfaced == EntryErrorSurfaced
    IN  /\ \A p \in walked :
              (Eligible(p) /\ config.DirFS.mode[p] = "statErr")
                  => /\ AbsOf(p) \in DOMAIN localFiles
                     /\ localFiles[AbsOf(p)].data = FileBytes(p)
                     /\ localFiles[AbsOf(p)].lastModified = "now"
                     /\ localFiles[AbsOf(p)].readingErrors = <<[op |-> "stat", path |-> p]>>
                     /\ \E i \in 1..Len(allErrors) : allErrors[i] = [op |-> "stat", path |-> p]
        /\ \A k \in DOMAIN localFiles :
              config.DirFS.mode[localFiles[k].filename] # "statErr"
                  => /\ localFiles[k].lastModified = "stat"
                     /\ localFiles[k].readingErrors = <<>>
        /\ walkErr # NIL => surfaced
        /\ (pc = "done" /\ ~surfaced) => (lfs # NIL /\ lfs.Files = localFiles)

\* b.yaml cannot be stat'ed: it is an entry of the LocalFS returned, with
\* the time of discovery and the stat error, and so is c.json, walked after it
C15_Witness ==
    /\ pc = "done"
    /\ lfs # NIL
    /\ config.DirFS.mode[P_b] = "statErr"
    /\ AbsOf(P_b) \in DOMAIN lfs.Files
    /\ lfs.Files[AbsOf(P_b)].lastModified = "now"
    /\ lfs.Files[AbsOf(P_b)].readingErrors # <<>>
    /\ lfs.readingErrors = <<[op |-> "stat", path |-> P_b]>>
    /\ AbsOf(P_c) \in DOMAIN lfs.Files
    /\ lfs.Files[AbsOf(P_c)].lastModified = "stat"

(***************************************************************************)
(* The origin stamp of the cached index (SpecCache).                       *)
(***************************************************************************)
\* C16: in every state the absolute path of a record is the key under which
\* it is stored, and if the record has a cached index the specAbsolutePath
\* of that index is this absolute path; so is the specAbsolutePath of every
\* index built.
C16_IndexOriginStamp ==
    /\ \A k \in DOMAIN localFiles :
          /\ localFiles[k].fullPath = k
          /\ k = AbsOf(localFiles[k].filename)
    /\ Ready =>
          /\ \A f \in DOMAIN lfs.Files :
                /\ lfs.Files[f].fullPath = f
                /\ lfs.Files[f].index # 0
                      => /\ lfs.Files[f].index \in DOMAIN indexes
                         /\ indexes[lfs.Files[f].index].specAbsolutePath = f
          /\ \A i \in DOMAIN indexes : indexes[i].specAbsolutePath \in DOMAIN lfs.Files

\* Index has been called on a.yaml and has returned: the record stored
\* under /r/a.yaml has a cached index stamped /r/a.yaml
C16_Witness ==
    /\ Ready
    /\ N_abs_a \in DOMAIN lfs.Files
    /\ hist[N_abs_a].iDone >= 1
    /\ lfs.Files[N_abs_a].index # 0
    /\ indexes[lfs.Files[N_abs_a].index].specAbsolutePath = N_abs_a

(***************************************************************************)
(* More properties of Read (SpecOpen).                                     *)
(***************************************************************************)
\* the bytes of the file a handle is on
Content(h) == lfs.Files[handles[h].f].data

\* C17: a Read through a handle at offset o below the length of the content,
\* into a buffer of length c, copies the min(c, length - o) bytes of the
\* content from o on, advances the offset by that number and returns no
\* error; a Read at an offset that has reached the length returns 0 bytes
\* and end-of-stream and leaves the offset.  So end-of-stream is what the
\* last Read returned only if the offset is the length, and the bytes
\* copied through a handle are the content up to its offset.
C17_ReadCopies ==
    /\ [][\A h \in DOMAIN handles :
            handles'[h] # handles[h]
                => LET o == handles[h].offset
                       c == handles'[h].cap
                       len == Len(Content(h))
                   IN  /\ c \in 1..MaxBuf
                       /\ handles'[h].f = handles[h].f
                       /\ IF o < len
                          THEN /\ handles'[h].n = Min(c, len - o)
                               /\ handles'[h].n > 0
                               /\ handles'[h].got
                                     = handles[h].got \o SubSeq(Content(h), o + 1, o + handles'[h].n)
                               /\ handles'[h].offset = o + handles'[h].n
                               /\ handles'[h].err = NIL
                          ELSE /\ handles'[h].n = 0
                               /\ handles'[h].got = handles[h].got
                               /\ handles'[h].offset = o
                               /\ handles'[h].err = [err |-> "EOF"]]_vars
    /\ [](\A h \in DOMAIN handles :
            /\ handles[h].got = SubSeq(Content(h), 1, handles[h].offset)
            /\ handles[h].err = [err |-> "EOF"]
                  => (handles[h].n = 0 /\ handles[h].offset = Len(Content(h)))
            /\ handles[h].err \in {NIL, [err |-> "EOF"]})

\* the first Read through a handle on the empty c.json returned
\* end-of-stream; a Read of a.yaml at offset 2 into a buffer of length 2
\* copied the one byte left
C17_Witness ==
    /\ \E h \in DOMAIN handles :
          /\ Content(h) = <<>>
          /\ handles[h].cap > 0
          /\ handles[h].err = [err |-> "EOF"]
          /\ handles[h].offset = 0
    /\ \E h \in DOMAIN handles :
          /\ handles[h].cap = 2
          /\ handles[h].n = 1
          /\ handles[h].offset = 3
          /\ handles[h].got = <<"a", "b", "c">>
          /\ handles[h].err = NIL

\* C20: the offset of a handle returned by Open starts at 0, never
\* decreases and is always between 0 and the length of the content; no Read
\* returns the invalid-argument error of a negative offset.
C20_OffsetInRange ==
    /\ [](\A h \in DOMAIN handles :
            /\ 0 <= handles[h].offset
            /\ handles[h].offset <= Len(Content(h))
            /\ handles[h].err # [err |-> "ErrInvalid"])
    /\ [][/\ DOMAIN handles \subseteq DOMAIN handles'
          /\ \A h \in DOMAIN handles : handles'[h].offset >= handles[h].offset
          /\ \A h \in DOMAIN handles' \ DOMAIN handles : handles'[h].offset = 0]_vars

\* a handle on a.yaml was read to the end and read again: the offset is the
\* length of the content; a second handle is still at 0
C20_Witness ==
    \E h, k \in DOMAIN handles :
        /\ Len(Content(h)) = 3
        /\ handles[h].offset = 3
        /\ handles[h].err = [err |-> "EOF"]
        /\ handles[k].offset = 0
        /\ handles[k].cap = 0

(***************************************************************************)
(* Unsupported files (Spec).                                               *)
(***************************************************************************)
\* C19: a walked file whose type is UNSUPPORTED is dropped without an
\* error: it is not an entry, every entry is YAML or JSON, and no error of
\* the walk is about it.
C19_UnsupportedDropped ==
    /\ \A k \in DOMAIN localFiles :
          /\ localFiles[k].extension \in {"YAML", "JSON"}
          /\ ExtractFileType(localFiles[k].filename) = localFiles[k].extension
    /\ \A p \in TreeFiles :
          ExtractFileType(p) = "UNSUPPORTED"
              => /\ AbsOf(p) \notin DOMAIN localFiles
                 /\ \A i \in 1..Len(allErrors) : allErrors[i].path # p
    /\ walkErr # NIL => walkErr.op = "walk"
    /\ lfs # NIL => (lfs.Files = localFiles /\ lfs.readingErrors = allErrors)

\* n.txt is admitted by the allow-list and could not be opened, stat'ed or
\* read; it has been walked, and the LocalFS returned has s.yaml as its one
\* entry and no errors
C19_Witness ==
    /\ pc = "done"
    /\ lfs # NIL
    /\ config.BaseDirectory = B_absdir
    /\ config.FileFilters = <<P_s, P_n, P_dhid>>
    /\ config.DirFS.mode[P_n] # "ok"
    /\ P_n \in WalkedFiles
    /\ ExtractFileType(P_n) = "UNSUPPORTED"
    /\ lfs.readingErrors = <<>>
    /\ AbsOf(P_s) \in DOMAIN lfs.Files
    /\ AbsOf(P_n) \notin DOMAIN lfs.Files

(***************************************************************************)
(* The frame of the operations on a LocalFS (SpecAll).                     *)
(***************************************************************************)
\* what a LocalFile is apart from its caches
Shape(l) ==
    [ filename      |-> l.filename,
      name          |-> l.name,
      extension     |-> l.extension,
      data          |-> l.data,
      fullPath      |-> l.fullPath,
      lastModified  |-> l.lastModified,
      readingErrors |-> l.readingErrors ]

\* C18: once NewLocalFSWithConfig has returned a LocalFS, no step of Open,
\* Read, Stat, Close, GetContentAsYAMLNode or Index adds, removes or re-keys
\* an entry or changes the bytes, the paths, the type, the modification
\* time or the errors of a record, or the directories and errors of the
\* LocalFS; a handle stays on its file and only a Read through it moves
\* its offset.
C18_ShapeImmutable ==
    /\ [][Ready =>
            /\ Ready'
            /\ DOMAIN lfs'.Files = DOMAIN lfs.Files
            /\ \A f \in DOMAIN lfs.Files : Shape(lfs'.Files[f]) = Shape(lfs.Files[f])
            /\ lfs'.baseDirectory = lfs.baseDirectory
            /\ lfs'.entryPointDirectory = lfs.entryPointDirectory
            /\ lfs'.readingErrors = lfs.readingErrors
            /\ DOMAIN handles \subseteq DOMAIN handles'
            /\ \A h \in DOMAIN handles :
                  /\ handles'[h].f = handles[h].f
                  /\ handles'[h].offset # handles[h].offset
                        => handles'[h].cap \in 1..MaxBuf /\ handles'[h].n > 0]_vars
    /\ [](Ready =>
            /\ DOMAIN lfs.Files = DOMAIN localFiles
            /\ \A f \in DOMAIN lfs.Files : Shape(lfs.Files[f]) = Shape(localFiles[f]))

\* after GetContentAsYAMLNode and Index on a.yaml and an Open of it, with a
\* Read and a Close through the handle, both caches of the record are set
\* and the handle has moved
C18_Witness ==
    /\ Ready
    /\ lfs.Files[N_abs_a].parsed # 0
    /\ lfs.Files[N_abs_a].index # 0
    /\ hist[N_abs_a].gDone >= 1
    /\ hist[N_abs_a].iDone >= 1
    /\ \E h \in DOMAIN handles :
          /\ handles[h].f = N_abs_a
          /\ handles[h].offset > 0
          /\ handles[h].closed

====
